---- MODULE Spec2Model ----
(***************************************************************************)
(* Message-routing layer of x/wasm/keeper/handler_plugin.go: the Standard  *)
(* Handler (SDKMessageHandler), the Cross-Chain Packet Handler             *)
(* (IBCRawPacketHandler), the Coin-Burn Handler and the Dispatch Chain     *)
(* (MessageHandlerChain).                                                  *)
(*                                                                         *)
(* A dispatch call is synchronous and single-threaded, so every handler is *)
(* an operator from (world, request) to (result, world'), and an action    *)
(* runs one whole DispatchMsg call.  The world carries the stores the      *)
(* handlers mutate through their collaborators and the ordered log of the  *)
(* collaborator calls made during the call.                                *)
(***************************************************************************)
EXTENDS Integers, Sequences, FiniteSets, TLC

VARIABLES
  pc,        \* "new": before construction; "panicked": the constructor panicked;
             \* "ready": the request is drawn, DispatchMsg not yet called; "done": it returned
  req,       \* the arguments of the DispatchMsg call and the collaborators' behaviour
  res,       \* what DispatchMsg returned: [events, data, err]
  log,       \* the collaborator calls DispatchMsg made, in order
  seqStore,  \* channel store: next send sequence per (port, channel)
  chanStore, \* channel store: channel descriptor per (port, channel)
  capStore,  \* capability store: capability per capability path
  sent,      \* packets the channel store accepted, in order
  bank       \* coin ledger: balance per account and denomination

vars == <<pc, req, res, log, seqStore, chanStore, capStore, sent, bank>>

----------------------------------------------------------------------------
(* Errors.  An error is its root kind and the labels wrapped around it,    *)
(* outermost first; the nil error has kind "nil".                          *)

NilErr == [kind |-> "nil", labels |-> <<>>]

Err(kind) == [kind |-> kind, labels |-> <<>>]

\* sdkerrors.Wrap / Wrapf: a label around the error, the cause kept.
Wrap(e, label) == [kind |-> e.kind, labels |-> <<label>> \o e.labels]

ErrUnknownMsg == Err("ErrUnknownMsg")
ErrUnsupportedForContract == Err("ErrUnsupportedForContract")
ErrEmpty == Err("ErrEmpty")
ErrSequenceSendNotFound == Err("ErrSequenceSendNotFound")
ErrInvalidChannel == Err("ErrInvalidChannel")
ErrChannelCapabilityNotFound == Err("ErrChannelCapabilityNotFound")
ErrUnauthorized == Err("ErrUnauthorized")
ErrPanic == Err("ErrPanic")
ErrUnknownRequest == Err("ErrUnknownRequest")

\* errors.Is(err, target): the target is the error or a cause of it.
ErrorsIs(e, target) == e.kind = target.kind /\ e.kind # "nil"

\* A return of (events, data, err) leaving the world as the calls made it.
Return(w, events, data, err) ==
  [res |-> [events |-> events, data |-> data, err |-> err], w |-> w]

Logged(w, entry) == [w EXCEPT !.log = Append(@, entry)]

\* The calls of the log made to the collaborator operation `name`.
CallsOf(lg, name) == SelectSeq(lg, LAMBDA e : e.call = name)

----------------------------------------------------------------------------
(* Bounds and input domains.                                               *)

MaxSends == 2      \* packets accepted by the channel store in one execution
MaxOps == 2        \* host operations the Encoder produces for one message
MaxChain == 3      \* handlers of a chain of function handlers
MaxCustom == 2     \* custom encoder sets given to NewDefaultMessageHandler

Addrs == {"C1", "C2"}
ModuleName == "wasm"
Ports == {"", "wasm.C1", "wasm.C2"}
Channels == {"", "channel-0", "channel-1"}
PortChans == {pcn \in Ports \X Channels : pcn[1] # "" /\ pcn[2] # ""}

\* The send-packet payloads a contract emits: data, timeout block (absent
\* or one (revision, height)) and timeout timestamp.
Payloads ==
  { [data |-> <<1, 2>>, block |-> <<[revision |-> 1, height |-> 1000]>>, timestamp |-> 0],
    [data |-> <<>>, block |-> <<>>, timestamp |-> 7] }

IBCSendPacketMsgs ==
  { [variant |-> "IBC.SendPacket", channelID |-> c, data |-> p.data,
     timeoutBlock |-> p.block, timeoutTimestamp |-> p.timestamp]
    : c \in Channels, p \in Payloads }

\* An IBC message that is not a send (msg.IBC != nil, msg.IBC.SendPacket == nil).
IBCCloseMsg == [variant |-> "IBC.CloseChannel", channelID |-> "channel-0"]
BankSendMsg == [variant |-> "Bank.Send"]
CustomMsg == [variant |-> "Custom"]

\* What the channel store's SendPacket may answer.
SendErrs == {NilErr, Err("ErrInvalidChannelState")}

----------------------------------------------------------------------------
(* Collaborators of the Cross-Chain Packet Handler.                        *)

\* Mutant: the capability looked up under one fixed port, not the contract's.
ChannelCapabilityPathFixedPort(portID, channelID) ==
  <<"capabilities", "ports", "wasm.C1", "channels", channelID>>

\* host.ChannelCapabilityPath(portID, channelID)
ChannelCapabilityPath(portID, channelID) ==
  <<"capabilities", "ports", portID, "channels", channelID>>

NotFound == [found |-> FALSE]

\* channelKeeper.GetNextSequenceSend(ctx, portID, channelID)
GetNextSequenceSend(w, portID, channelID) ==
  IF <<portID, channelID>> \in DOMAIN w.seq THEN w.seq[<<portID, channelID>>] ELSE NotFound

\* channelKeeper.GetChannel(ctx, portID, channelID)
GetChannel(portID, channelID) ==
  IF <<portID, channelID>> \in DOMAIN chanStore THEN chanStore[<<portID, channelID>>] ELSE NotFound

\* capabilityKeeper.GetCapability(ctx, name)
GetCapability(name) ==
  IF name \in DOMAIN capStore THEN capStore[name] ELSE NotFound

\* channelKeeper.SendPacket(ctx, channelCap, packet): the store answers
\* sendErr; an accepted packet is recorded and advances the next send
\* sequence of its source channel by one.
SendPacket(w, channelCap, packet, sendErr) ==
  LET key == <<packet.sourcePort, packet.sourceChannel>>
      w1 == Logged(w, [call |-> "SendPacket", cap |-> channelCap, packet |-> packet, err |-> sendErr])
  IN  IF sendErr # NilErr \/ key \notin DOMAIN w.seq \/ ~w.seq[key].found
      THEN w1
      ELSE [w1 EXCEPT !.seq[key].seq = @ + 1, !.sent = Append(@, packet)]

\* convertWasmIBCTimeoutHeightToCosmosHeight: an absent block is height
\* (0, 0), a present one keeps its revision and height.
ConvertWasmIBCTimeoutHeightToCosmosHeight(block) ==
  IF block = <<>>
  THEN [revisionNumber |-> 0, revisionHeight |-> 0]
  ELSE [revisionNumber |-> block[1].revision, revisionHeight |-> block[1].height]

----------------------------------------------------------------------------
(* IBCRawPacketHandler.DispatchMsg                                         *)

\* msg.IBC == nil || msg.IBC.SendPacket == nil
NotSendPacket(msg) == msg.variant # "IBC.SendPacket"

\* Mutant: the empty-port check left out.
PortUnsupportedNever(contractIBCPortID) == FALSE

\* contractIBCPortID == ""
PortUnsupported(contractIBCPortID) == contractIBCPortID = ""

\* Mutant: the empty-channel check left out.
ChannelEmptyNever(contractIBCChannelID) == FALSE

\* contractIBCChannelID == ""
ChannelEmpty(contractIBCChannelID) == contractIBCChannelID = ""

\* Mutant: the packet built with the first sequence instead of the fetched one.
NewPacketStaleSequence(msg, sequence, contractIBCPortID, contractIBCChannelID, channelInfo) ==
  [ data |-> msg.data,
    sequence |-> 1,
    sourcePort |-> contractIBCPortID,
    sourceChannel |-> contractIBCChannelID,
    destPort |-> channelInfo.counterparty.portID,
    destChannel |-> channelInfo.counterparty.channelID,
    timeoutHeight |-> ConvertWasmIBCTimeoutHeightToCosmosHeight(msg.timeoutBlock),
    timeoutTimestamp |-> msg.timeoutTimestamp ]

\* Mutant: the counterparty's port and channel passed in each other's place.
NewPacketSwappedDest(msg, sequence, contractIBCPortID, contractIBCChannelID, channelInfo) ==
  [ data |-> msg.data,
    sequence |-> sequence,
    sourcePort |-> contractIBCPortID,
    sourceChannel |-> contractIBCChannelID,
    destPort |-> channelInfo.counterparty.channelID,
    destChannel |-> channelInfo.counterparty.portID,
    timeoutHeight |-> ConvertWasmIBCTimeoutHeightToCosmosHeight(msg.timeoutBlock),
    timeoutTimestamp |-> msg.timeoutTimestamp ]

\* channeltypes.NewPacket(...)
NewPacket(msg, sequence, contractIBCPortID, contractIBCChannelID, channelInfo) ==
  [ data |-> msg.data,
    sequence |-> sequence,
    sourcePort |-> contractIBCPortID,
    sourceChannel |-> contractIBCChannelID,
    destPort |-> channelInfo.counterparty.portID,
    destChannel |-> channelInfo.counterparty.channelID,
    timeoutHeight |-> ConvertWasmIBCTimeoutHeightToCosmosHeight(msg.timeoutBlock),
    timeoutTimestamp |-> msg.timeoutTimestamp ]

IBCRawPacketHandlerDispatchMsg(w, in) ==
  IF NotSendPacket(in.msg) THEN Return(w, <<>>, <<>>, ErrUnknownMsg)
  ELSE IF PortUnsupported(in.portID)
  THEN Return(w, <<>>, <<>>, Wrap(ErrUnsupportedForContract, "ibc not supported"))
  ELSE IF ChannelEmpty(in.msg.channelID)
  THEN Return(w, <<>>, <<>>, Wrap(ErrEmpty, "ibc channel"))
  ELSE
    LET contractIBCChannelID == in.msg.channelID
        sequence == GetNextSequenceSend(w, in.portID, contractIBCChannelID)
        w1 == Logged(w, [call |-> "GetNextSequenceSend", port |-> in.portID,
                         channel |-> contractIBCChannelID, result |-> sequence])
    IN  IF ~sequence.found
        THEN Return(w1, <<>>, <<>>, Wrap(ErrSequenceSendNotFound, "source port, source channel"))
        ELSE
          LET channelInfo == GetChannel(in.portID, contractIBCChannelID)
              w2 == Logged(w1, [call |-> "GetChannel", port |-> in.portID,
                                channel |-> contractIBCChannelID, result |-> channelInfo])
          IN  IF ~channelInfo.found
              THEN Return(w2, <<>>, <<>>, Wrap(ErrInvalidChannel, "not found"))
              ELSE
                LET name == ChannelCapabilityPath(in.portID, contractIBCChannelID)
                    channelCap == GetCapability(name)
                    w3 == Logged(w2, [call |-> "GetCapability", name |-> name,
                                      result |-> channelCap])
                IN  IF ~channelCap.found
                    THEN Return(w3, <<>>, <<>>,
                                Wrap(ErrChannelCapabilityNotFound, "module does not own channel capability"))
                    ELSE
                      LET packet == NewPacket(in.msg, sequence.seq, in.portID,
                                              contractIBCChannelID, channelInfo)
                      IN  Return(SendPacket(w3, channelCap.cap, packet, in.sendErr),
                                 <<>>, <<>>, in.sendErr)

----------------------------------------------------------------------------
(* Collaborators of the Coin-Burn Handler.                                 *)

MaxCoins == 2      \* coins in the amount list of one burn message

Denoms == {"uatom", "ustake"}
Digits == {"0", "1", "2", "3", "4", "5", "6", "7", "8", "9"}
DigitValue(c) ==
  CASE c = "0" -> 0 [] c = "1" -> 1 [] c = "2" -> 2 [] c = "3" -> 3 [] c = "4" -> 4
    [] c = "5" -> 5 [] c = "6" -> 6 [] c = "7" -> 7 [] c = "8" -> 8 [] c = "9" -> 9

\* The amount texts a contract writes, as sequences of characters.
AmountTexts == { <<"1", "0", "0">>, <<"7">>, <<"1", "x">> }
WasmCoins == [denom : Denoms, amount : AmountTexts]

RECURSIVE SeqsUpTo(_, _)
SeqsUpTo(S, n) ==
  IF n = 0 THEN {<<>>}
  ELSE LET shorter == SeqsUpTo(S, n - 1)
       IN  shorter \cup {Append(q, x) : q \in {t \in shorter : Len(t) = n - 1}, x \in S}

BankBurnMsgs == {[variant |-> "Bank.Burn", amount |-> a] : a \in SeqsUpTo(WasmCoins, MaxCoins)}

\* The decimal value of a text of digits.
RECURSIVE DecimalValue(_)
DecimalValue(text) ==
  IF text = <<>> THEN 0
  ELSE 10 * DecimalValue(SubSeq(text, 1, Len(text) - 1)) + DigitValue(text[Len(text)])

IsNumeral(text) == text # <<>> /\ \A i \in 1..Len(text) : text[i] \in Digits

\* convertWasmCoinsToSdkCoins: each (denom, amount text) becomes a coin with
\* the amount's value, in order; an amount that is no numeral fails the
\* conversion.
ConvertWasmCoinsToSdkCoins(amount) ==
  IF \E i \in 1..Len(amount) : ~IsNumeral(amount[i].amount)
  THEN [err |-> Wrap(Err("ErrInvalidCoins"), "amount"), coins |-> <<>>]
  ELSE [err |-> NilErr,
        coins |-> [i \in 1..Len(amount) |->
                     [denom |-> amount[i].denom, amount |-> DecimalValue(amount[i].amount)]]]

\* The total of a denomination in a list of coins.
RECURSIVE TotalOf(_, _)
TotalOf(coins, d) ==
  IF coins = <<>> THEN 0
  ELSE (IF Head(coins).denom = d THEN Head(coins).amount ELSE 0) + TotalOf(Tail(coins), d)

Covers(balance, coins) == \A d \in Denoms : TotalOf(coins, d) <= balance[d]

\* burner.SendCoinsFromAccountToModule(ctx, senderAddr, recipientModule, amt):
\* the ledger answers ledgerErr, or refuses an amount the sender does not
\* hold; otherwise the coins move to the module account.
SendCoinsFromAccountToModule(w, senderAddr, recipientModule, amt, ledgerErr) ==
  LET err == IF ledgerErr # NilErr THEN ledgerErr
             ELSE IF ~Covers(w.bank[senderAddr], amt) THEN Err("ErrInsufficientFunds")
             ELSE NilErr
      w1 == Logged(w, [call |-> "SendCoinsFromAccountToModule", from |-> senderAddr,
                       module |-> recipientModule, coins |-> amt, err |-> err])
  IN  [err |-> err,
       w |-> IF err # NilErr THEN w1
             ELSE [w1 EXCEPT
                     !.bank = [a \in DOMAIN @ |-> [d \in Denoms |->
                        IF a = senderAddr THEN @[a][d] - TotalOf(amt, d)
                        ELSE IF a = recipientModule THEN @[a][d] + TotalOf(amt, d)
                        ELSE @[a][d]]]]]

\* burner.BurnCoins(ctx, moduleName, amt): the ledger answers ledgerErr, or
\* refuses an amount the module does not hold; otherwise the coins are
\* destroyed.
BurnCoins(w, moduleName, amt, ledgerErr) ==
  LET err == IF ledgerErr # NilErr THEN ledgerErr
             ELSE IF ~Covers(w.bank[moduleName], amt) THEN Err("ErrInsufficientFunds")
             ELSE NilErr
      w1 == Logged(w, [call |-> "BurnCoins", module |-> moduleName, coins |-> amt, err |-> err])
  IN  [err |-> err,
       w |-> IF err # NilErr THEN w1
             ELSE [w1 EXCEPT
                     !.bank = [a \in DOMAIN @ |-> [d \in Denoms |->
                        IF a = moduleName THEN @[a][d] - TotalOf(amt, d) ELSE @[a][d]]]]]

\* What the ledger may answer of its own accord.
LedgerErrs == {NilErr, Err("ErrLedger")}

----------------------------------------------------------------------------
(* NewBurnCoinMessageHandler                                               *)

\* msg.Bank != nil && msg.Bank.Burn != nil
IsBurn(msg) == msg.variant = "Bank.Burn"

\* Mutant: the result of the transfer not looked at.
TransferFailedIgnored(err) == FALSE

\* err := burner.SendCoinsFromAccountToModule(...); err != nil
TransferFailed(err) == err # NilErr

\* Mutant: the result of the burn not looked at.
BurnFailedIgnored(err) == FALSE

\* err := burner.BurnCoins(...); err != nil
BurnFailed(err) == err # NilErr

BurnCoinMessageHandlerDispatchMsg(w, in) ==
  IF IsBurn(in.msg)
  THEN
    LET conv == ConvertWasmCoinsToSdkCoins(in.msg.amount)
    IN  IF conv.err # NilErr THEN Return(w, <<>>, <<>>, conv.err)
        ELSE
          LET t == SendCoinsFromAccountToModule(w, in.contractAddr, ModuleName, conv.coins,
                                                in.transferErr)
          IN  IF TransferFailed(t.err)
              THEN Return(t.w, <<>>, <<>>, Wrap(t.err, "transfer to module"))
              ELSE
                LET b == BurnCoins(t.w, ModuleName, conv.coins, in.burnErr)
                IN  IF BurnFailed(b.err)
                    THEN Return(b.w, <<>>, <<>>, Wrap(b.err, "burn coins"))
                    ELSE Return(Logged(b.w, [call |-> "Logger.Info", msg |-> "Burned",
                                             amount |-> conv.coins]),
                                <<>>, <<>>, NilErr)
  ELSE Return(w, <<>>, <<>>, ErrUnknownMsg)

----------------------------------------------------------------------------
(* The Encoder and the routers of the Standard Handler.                    *)

\* The kinds of host operation: MsgA implements legacytx.LegacyMsg with
\* route "a", MsgB does not.
OpKinds == {"MsgA", "MsgB"}
IsLegacyMsg(sdkMsg) == sdkMsg.kind = "MsgA"
Route(sdkMsg) == "a"

\* encoders.Encode(ctx, contractAddr, contractIBCPortID, msg): the encoder
\* set maps a variant to what its conversion yields, an error or a list of
\* host operations; a variant it does not hold is an unknown message.
Encode(encoders, msg) ==
  IF msg.variant \in DOMAIN encoders
  THEN encoders[msg.variant]
  ELSE [err |-> Wrap(ErrUnknownMsg, "unknown variant"), msgs |-> <<>>]

\* Mutant: self-validation that accepts every operation.
ValidateBasicSkipped(sdkMsg) == NilErr

\* msg.ValidateBasic()
ValidateBasic(sdkMsg) == sdkMsg.validateErr

\* msg.GetSigners()
GetSigners(sdkMsg) == sdkMsg.signers

\* Mutant: the nil check of msgRouter left out.
MsgRouterIsNilNever(msgRouter) == FALSE

\* h.msgRouter == nil
MsgRouterIsNil(msgRouter) == msgRouter.isNil

\* Mutant: a modern router that has a handler for nothing.
HasServiceHandlerNever(msgRouter, sdkMsg) == FALSE

\* h.msgRouter.Handler(msg) != nil
HasServiceHandler(msgRouter, sdkMsg) == sdkMsg.kind \in msgRouter.handlers

\* h.router.Route(ctx, legacyMsg.Route()) != nil
HasRoute(router, route) == route \in router

\* res.Events of a handler's result: one event for an operation of the
\* first kind, two for one of the second.
ResultEvents(via, idx, sdkMsg) ==
  [n \in 1..(IF sdkMsg.kind = "MsgA" THEN 1 ELSE 2) |->
     [type |-> sdkMsg.kind, via |-> via, idx |-> idx, n |-> n]]

\* handler(ctx, msg): the handler the router gave runs the operation and
\* answers the operation's handlerErr, or a result with its data and events.
InvokeHandler(w, via, idx, sdkMsg) ==
  [ err |-> sdkMsg.handlerErr,
    result |-> [data |-> <<via, sdkMsg.kind, idx>>,
                events |-> ResultEvents(via, idx, sdkMsg)],
    w |-> Logged(w, [call |-> "handler", via |-> via, idx |-> idx, msg |-> sdkMsg]) ]

----------------------------------------------------------------------------
(* SDKMessageHandler                                                       *)

\* Mutant: only the first declared signer compared with the contract.
SignersAreContractFirstOnly(signers, contractAddr) ==
  signers = <<>> \/ signers[1] = contractAddr

\* for _, acct := range msg.GetSigners() { if !acct.Equals(contractAddr) ... }
SignersAreContract(signers, contractAddr) ==
  \A i \in 1..Len(signers) : signers[i] = contractAddr

\* SDKMessageHandler.handleSdkMessage: [err, result, w]
HandleSdkMessage(w, h, contractAddr, idx, sdkMsg) ==
  LET w0 == Logged(w, [call |-> "ValidateBasic", idx |-> idx, msg |-> sdkMsg])
      w1 == Logged(w0, [call |-> "GetSigners", idx |-> idx, msg |-> sdkMsg])
      none == [data |-> <<>>, events |-> <<>>]
  IN  IF ValidateBasic(sdkMsg) # NilErr
      THEN [err |-> ValidateBasic(sdkMsg), result |-> none, w |-> w0]
      ELSE IF ~SignersAreContract(GetSigners(sdkMsg), contractAddr)
      THEN [err |-> Wrap(ErrUnauthorized, "contract doesn't have permission"),
            result |-> none, w |-> w1]
      ELSE IF MsgRouterIsNil(h.msgRouter)
      THEN [err |-> Wrap(ErrPanic, ">>> msgRouter is nil!!!"), result |-> none, w |-> w1]
      ELSE
        LET w2 == Logged(w1, [call |-> "msgRouter.Handler", idx |-> idx, msg |-> sdkMsg])
        IN  IF HasServiceHandler(h.msgRouter, sdkMsg)
            THEN
              LET r == InvokeHandler(w2, "msgRouter", idx, sdkMsg)
              IN  IF r.err # NilErr THEN [err |-> r.err, result |-> none, w |-> r.w] ELSE r
            ELSE IF IsLegacyMsg(sdkMsg)
            THEN
              LET w3 == Logged(w2, [call |-> "router.Route", idx |-> idx, route |-> Route(sdkMsg)])
              IN  IF ~HasRoute(h.router, Route(sdkMsg))
                  THEN [err |-> Wrap(ErrUnknownRequest, "unrecognized message route"),
                        result |-> none, w |-> w3]
                  ELSE
                    LET r == InvokeHandler(w3, "router", idx, sdkMsg)
                    IN  IF r.err # NilErr THEN [err |-> r.err, result |-> none, w |-> r.w] ELSE r
            ELSE [err |-> Wrap(ErrUnknownRequest, "can't route message"),
                  result |-> none, w |-> w2]

RECURSIVE SDKMessageLoopPartial(_, _, _, _, _, _, _)
\* Mutant: the events and data gathered so far returned with the error.
SDKMessageLoopPartial(w, h, contractAddr, sdkMsgs, idx, events, data) ==
  IF idx > Len(sdkMsgs) THEN Return(w, events, data, NilErr)
  ELSE
    LET r == HandleSdkMessage(w, h, contractAddr, idx, sdkMsgs[idx])
    IN  IF r.err # NilErr THEN Return(r.w, events, data, r.err)
        ELSE SDKMessageLoopPartial(r.w, h, contractAddr, sdkMsgs, idx + 1,
                                   events \o r.result.events, Append(data, r.result.data))

RECURSIVE SDKMessageLoopNewestFirst(_, _, _, _, _, _, _)
\* Mutant: each result put before the ones gathered so far.
SDKMessageLoopNewestFirst(w, h, contractAddr, sdkMsgs, idx, events, data) ==
  IF idx > Len(sdkMsgs) THEN Return(w, events, data, NilErr)
  ELSE
    LET r == HandleSdkMessage(w, h, contractAddr, idx, sdkMsgs[idx])
    IN  IF r.err # NilErr THEN Return(r.w, <<>>, <<>>, r.err)
        ELSE SDKMessageLoopNewestFirst(r.w, h, contractAddr, sdkMsgs, idx + 1,
                                       r.result.events \o events, <<r.result.data>> \o data)

\* The loop of SDKMessageHandler.DispatchMsg over sdkMsgs from position idx.
RECURSIVE SDKMessageLoop(_, _, _, _, _, _, _)
SDKMessageLoop(w, h, contractAddr, sdkMsgs, idx, events, data) ==
  IF idx > Len(sdkMsgs) THEN Return(w, events, data, NilErr)
  ELSE
    LET r == HandleSdkMessage(w, h, contractAddr, idx, sdkMsgs[idx])
    IN  IF r.err # NilErr THEN Return(r.w, <<>>, <<>>, r.err)
        ELSE SDKMessageLoop(r.w, h, contractAddr, sdkMsgs, idx + 1,
                            events \o r.result.events, Append(data, r.result.data))

\* SDKMessageHandler.DispatchMsg
SDKMessageHandlerDispatchMsg(w, h, in) ==
  LET enc == Encode(h.encoders, in.msg)
      w1 == Logged(w, [call |-> "Encode", msg |-> in.msg])
  IN  IF enc.err # NilErr THEN Return(w1, <<>>, <<>>, enc.err)
      ELSE SDKMessageLoop(w1, h, in.contractAddr, enc.msgs, 1, <<>>, <<>>)

----------------------------------------------------------------------------
(* MessageHandlerFunc and MessageHandlerChain                              *)

\* MessageHandlerFunc.DispatchMsg: the function answers as it is written.
MessageHandlerFuncDispatchMsg(w, h, in) == Return(w, h.events, h.data, h.err)

\* Mutant: the handler's error compared with ErrUnknownMsg itself, a
\* wrapped one not recognised.
IsUnknownMsgExactly(err) == err = ErrUnknownMsg

\* errors.Is(err, types.ErrUnknownMsg)
IsUnknownMsg(err) == ErrorsIs(err, ErrUnknownMsg)

\* Mutant: the chain's last return gives the bare ErrUnknownMsg.
NoHandlerFoundBare == ErrUnknownMsg

\* Mutant: the chain's last return gives an error of another kind.
NoHandlerFoundOtherKind == Wrap(Err("ErrNotFound"), "no handler found")

\* sdkerrors.Wrap(types.ErrUnknownMsg, "no handler found")
NoHandlerFound == Wrap(ErrUnknownMsg, "no handler found")

RECURSIVE MessengerDispatchMsg(_, _, _), ChainLoop(_, _, _, _)

\* The loop of MessageHandlerChain.DispatchMsg over m.handlers from position i.
ChainLoop(w, handlers, i, in) ==
  IF i > Len(handlers) THEN Return(w, <<>>, <<>>, NoHandlerFound)
  ELSE
    LET h == handlers[i]
        r == MessengerDispatchMsg(Logged(w, [call |-> "DispatchMsg", handler |-> h.name]), h, in)
        w1 == Logged(r.w, [call |-> "returned", handler |-> h.name, err |-> r.res.err])
    IN  IF r.res.err = NilErr THEN Return(w1, r.res.events, r.res.data, NilErr)
        ELSE IF IsUnknownMsg(r.res.err) THEN ChainLoop(w1, handlers, i + 1, in)
        ELSE Return(w1, r.res.events, r.res.data, r.res.err)

\* MessageHandlerChain.DispatchMsg
MessageHandlerChainDispatchMsg(w, m, in) == ChainLoop(w, m.handlers, 1, in)

\* h.DispatchMsg(ctx, contractAddr, contractIBCPortID, msg) of a Messenger
MessengerDispatchMsg(w, h, in) ==
  CASE h.type = "sdk" -> SDKMessageHandlerDispatchMsg(w, h, in)
    [] h.type = "ibc" -> IBCRawPacketHandlerDispatchMsg(w, in)
    [] h.type = "burn" -> BurnCoinMessageHandlerDispatchMsg(w, in)
    [] h.type = "func" -> MessageHandlerFuncDispatchMsg(w, h, in)
    [] h.type = "chain" -> MessageHandlerChainDispatchMsg(w, h, in)
    [] h.type = "nil" -> Return(w, <<>>, <<>>, Err("panic: nil pointer dereference"))

\* NewSDKMessageHandler(router, msgRouter, encoders)
NewSDKMessageHandler(router, msgRouter, encoders) ==
  [type |-> "sdk", name |-> "sdk", router |-> router, msgRouter |-> msgRouter,
   encoders |-> encoders]

\* NewIBCRawPacketHandler(channelKeeper, capabilityKeeper)
NewIBCRawPacketHandler == [type |-> "ibc", name |-> "ibc"]

\* NewBurnCoinMessageHandler(bankKeeper)
NewBurnCoinMessageHandler == [type |-> "burn", name |-> "burn"]

\* NewMessageHandlerChain(first, others...)
NewMessageHandlerChain(handlers) == [type |-> "chain", name |-> "chain", handlers |-> handlers]

\* The nil Messenger standing at position i of an argument list.
NilMessenger(i) == [type |-> "nil", name |-> i]

\* Mutant: only the first handler looked at for nil.
NilHandlerPositionFirstOnly(handlers) ==
  IF handlers[1].type = "nil" THEN 0 ELSE -1

\* for i := range r.handlers { if r.handlers[i] == nil { panic(... i) } }:
\* the position, counted from 0, of the first nil handler, or -1.
NilHandlerPosition(handlers) ==
  IF \E i \in 1..Len(handlers) : handlers[i].type = "nil"
  THEN (CHOOSE i \in 1..Len(handlers) :
          /\ handlers[i].type = "nil"
          /\ \A j \in 1..(i - 1) : handlers[j].type # "nil") - 1
  ELSE -1

\* NewMessageHandlerChain(first, others...) with its nil check: a panic
\* naming the position, or the chain over first followed by others.
ConstructMessageHandlerChain(first, others) ==
  LET handlers == <<first>> \o others
      position == NilHandlerPosition(handlers)
  IN  IF position >= 0
      THEN [panicked |-> TRUE, position |-> position, chain |-> NewMessageHandlerChain(<<>>)]
      ELSE [panicked |-> FALSE, position |-> -1, chain |-> NewMessageHandlerChain(handlers)]

\* MessageEncoders.Merge(o): the entries of o laid over those of e.
Merge(e, o) ==
  [v \in DOMAIN e \cup DOMAIN o |-> IF v \in DOMAIN o THEN o[v] ELSE e[v]]

RECURSIVE MergeEncodersEarlierWins(_, _)
\* Mutant: each custom set merged under the sets before it.
MergeEncodersEarlierWins(encoders, customEncoders) ==
  IF customEncoders = <<>> THEN encoders
  ELSE MergeEncodersEarlierWins(Merge(Head(customEncoders), encoders), Tail(customEncoders))

RECURSIVE MergeEncoders(_, _)
\* for _, e := range customEncoders { encoders = encoders.Merge(e) }
MergeEncoders(encoders, customEncoders) ==
  IF customEncoders = <<>> THEN encoders
  ELSE MergeEncoders(Merge(encoders, Head(customEncoders)), Tail(customEncoders))

\* Mutant: the Cross-Chain Packet Handler put before the Standard Handler.
NewDefaultMessageHandlerIBCFirst(router, msgRouter, encoders) ==
  NewMessageHandlerChain(<< NewIBCRawPacketHandler,
                            NewSDKMessageHandler(router, msgRouter, encoders),
                            NewBurnCoinMessageHandler >>)

\* NewDefaultMessageHandler(router, msgRouter, ..., customEncoders...)
NewDefaultMessageHandler(router, msgRouter, encoders) ==
  NewMessageHandlerChain(<< NewSDKMessageHandler(router, msgRouter, encoders),
                            NewIBCRawPacketHandler,
                            NewBurnCoinMessageHandler >>)

----------------------------------------------------------------------------
(* State shared by the specifications.                                     *)

World == [seq |-> seqStore, sent |-> sent, bank |-> bank, log |-> <<>>]

NoReq == [contractAddr |-> "C1", portID |-> "", msg |-> [variant |-> "none"]]
NoRes == [events |-> <<>>, data |-> <<>>, err |-> NilErr]

RemotePort(p) == IF p = "wasm.C1" THEN "remote.A" ELSE "remote.B"
RemoteChannel(c) == IF c = "channel-0" THEN "channel-7" ELSE "channel-9"

\* Stores in which every channel endpoint is open, sequenced and owned.
FullSeqStore == [pcn \in PortChans |-> [found |-> TRUE, seq |-> 1]]
FullChanStore ==
  [pcn \in PortChans |->
     [found |-> TRUE,
      counterparty |-> [portID |-> RemotePort(pcn[1]), channelID |-> RemoteChannel(pcn[2])]]]
CapPaths == {ChannelCapabilityPath(pcn[1], pcn[2]) : pcn \in PortChans}
FullCapStore == [n \in CapPaths |-> [found |-> TRUE, cap |-> <<"cap", n[3], n[5]>>]]

\* Balances before any burn.
InitBank == [a \in Addrs \cup {ModuleName} |-> [d \in Denoms |-> IF a = ModuleName THEN 0 ELSE 100]]

----------------------------------------------------------------------------
(* SpecIBC: a contract execution dispatching messages, one after another,  *)
(* to the Cross-Chain Packet Handler.  The stores start with one endpoint  *)
(* possibly lacking its sequence, its descriptor or its capability.        *)

InitIBC ==
  /\ pc = "ready" /\ req = NoReq /\ res = NoRes /\ log = <<>>
  /\ sent = <<>> /\ bank = InitBank
  /\ \E dp \in PortChans, hasSeq \in BOOLEAN, hasChan \in BOOLEAN, hasCap \in BOOLEAN :
       /\ seqStore = [FullSeqStore EXCEPT ![dp] = IF hasSeq THEN @ ELSE NotFound]
       /\ chanStore = [FullChanStore EXCEPT ![dp] = IF hasChan THEN @ ELSE NotFound]
       /\ capStore = [FullCapStore EXCEPT ![ChannelCapabilityPath(dp[1], dp[2])] =
                                              IF hasCap THEN @ ELSE NotFound]

IBCDispatch ==
  /\ Len(sent) < MaxSends
  /\ \E portID \in Ports, msg \in IBCSendPacketMsgs \cup {IBCCloseMsg, BankSendMsg},
        sendErr \in SendErrs :
       LET in == [contractAddr |-> "C1", portID |-> portID, msg |-> msg, sendErr |-> sendErr]
           r == IBCRawPacketHandlerDispatchMsg(World, in)
       IN  /\ pc' = "done" /\ req' = in /\ res' = r.res /\ log' = r.w.log
           /\ seqStore' = r.w.seq /\ sent' = r.w.sent /\ bank' = r.w.bank
           /\ UNCHANGED <<chanStore, capStore>>

NextIBC == IBCDispatch

SpecIBC == InitIBC /\ [][NextIBC]_vars

----------------------------------------------------------------------------
(* SpecBurn: one message dispatched to the Coin-Burn Handler.              *)

InitBurn ==
  /\ pc = "ready" /\ res = NoRes /\ log = <<>>
  /\ seqStore = FullSeqStore /\ chanStore = FullChanStore /\ capStore = FullCapStore
  /\ sent = <<>> /\ bank = InitBank
  /\ \E contractAddr \in Addrs,
        msg \in BankBurnMsgs \cup {BankSendMsg, IBCCloseMsg},
        transferErr \in LedgerErrs, burnErr \in LedgerErrs :
       req = [contractAddr |-> contractAddr, portID |-> "", msg |-> msg,
              transferErr |-> transferErr, burnErr |-> burnErr]

BurnDispatch ==
  /\ pc = "ready"
  /\ LET r == BurnCoinMessageHandlerDispatchMsg(World, req)
     IN  /\ pc' = "done" /\ res' = r.res /\ log' = r.w.log
         /\ seqStore' = r.w.seq /\ sent' = r.w.sent /\ bank' = r.w.bank
         /\ UNCHANGED <<req, chanStore, capStore>>

NextBurn == BurnDispatch

SpecBurn == InitBurn /\ [][NextBurn]_vars

----------------------------------------------------------------------------
(* SpecChain: one message dispatched to a chain of function handlers, each *)
(* answering success, ErrUnknownMsg (bare or wrapped) or another error.    *)

FuncErrs == {NilErr, ErrUnknownMsg, Wrap(ErrUnknownMsg, "unknown variant"), Err("ErrFailed")}

\* The function handler standing at position i of a chain.
FuncHandlers(i) ==
  { [type |-> "func", name |-> i, events |-> <<[type |-> "handled", by |-> i]>>,
     data |-> <<i>>, err |-> e] : e \in FuncErrs }

FuncChains ==
  UNION { {hs \in [1..n -> UNION {FuncHandlers(i) : i \in 1..n}] :
             \A i \in 1..n : hs[i].name = i} : n \in 1..MaxChain }

InitChain ==
  /\ pc = "ready" /\ res = NoRes /\ log = <<>>
  /\ seqStore = FullSeqStore /\ chanStore = FullChanStore /\ capStore = FullCapStore
  /\ sent = <<>> /\ bank = InitBank
  /\ \E hs \in FuncChains, msg \in {BankSendMsg, CustomMsg} :
       req = [contractAddr |-> "C1", portID |-> "", msg |-> msg,
              chain |-> NewMessageHandlerChain(hs)]

ChainDispatch ==
  /\ pc = "ready"
  /\ LET r == MessageHandlerChainDispatchMsg(World, req.chain, req)
     IN  /\ pc' = "done" /\ res' = r.res /\ log' = r.w.log
         /\ seqStore' = r.w.seq /\ sent' = r.w.sent /\ bank' = r.w.bank
         /\ UNCHANGED <<req, chanStore, capStore>>

NextChain == ChainDispatch

SpecChain == InitChain /\ [][NextChain]_vars

----------------------------------------------------------------------------
(* SpecSDK: one message dispatched to the Standard Handler.  The Encoder   *)
(* knows the variant or not; what it yields is an error or a batch of host *)
(* operations, each with its validation result, its declared signers, its  *)
(* kind and the answer of the handler that would run it.                   *)

SdkMsgs ==
  [validateErr : {NilErr, Err("ErrInvalidRequest")},
   signers : {<<>>, <<"C1">>, <<"C1", "C2">>},
   kind : OpKinds,
   handlerErr : {NilErr, Err("ErrHandlerFailed")}]

MsgRouters ==
  { [isNil |-> TRUE, handlers |-> {}],
    [isNil |-> FALSE, handlers |-> {"MsgA"}],
    [isNil |-> FALSE, handlers |-> {"MsgB"}] }

Routers == {{}, {"a"}}

\* What the conversion of a known variant yields.
Encodings(ops, n) ==
  {[err |-> Err("ErrInvalidMsg"), msgs |-> <<>>]}
    \cup {[err |-> NilErr, msgs |-> b] : b \in SeqsUpTo(ops, n)}

\* The encoder sets: the variant unknown, or known with one of the encodings.
EncoderSets(variant, encodings) ==
  {<<>>} \cup {[v \in {variant} |-> e] : e \in encodings}

InitSDK ==
  /\ pc = "ready" /\ res = NoRes /\ log = <<>>
  /\ seqStore = FullSeqStore /\ chanStore = FullChanStore /\ capStore = FullCapStore
  /\ sent = <<>> /\ bank = InitBank
  /\ \E contractAddr \in Addrs, router \in Routers, msgRouter \in MsgRouters,
        encoders \in EncoderSets("Bank.Send", Encodings(SdkMsgs, MaxOps)) :
       req = [contractAddr |-> contractAddr, portID |-> "", msg |-> BankSendMsg,
              handler |-> NewSDKMessageHandler(router, msgRouter, encoders)]

SDKDispatch ==
  /\ pc = "ready"
  /\ LET r == SDKMessageHandlerDispatchMsg(World, req.handler, req)
     IN  /\ pc' = "done" /\ res' = r.res /\ log' = r.w.log
         /\ seqStore' = r.w.seq /\ sent' = r.w.sent /\ bank' = r.w.bank
         /\ UNCHANGED <<req, chanStore, capStore>>

NextSDK == SDKDispatch

SpecSDK == InitSDK /\ [][NextSDK]_vars

----------------------------------------------------------------------------
(* SpecDefault: one message dispatched to the default chain (Standard,     *)
(* Cross-Chain Packet, Coin-Burn).  A handler a router gives may itself    *)
(* fail with an error of the unknown-message kind: a contract executed by  *)
(* the routed operation whose own messages found no handler.               *)

DefaultSdkMsgs ==
  [validateErr : {NilErr, Err("ErrInvalidRequest")},
   signers : {<<"C1">>, <<"C2">>},
   kind : {"MsgA"},
   handlerErr : {NilErr, Err("ErrHandlerFailed"), Wrap(NoHandlerFound, "dispatch")}]

DefaultMsgs ==
  {BankSendMsg, CustomMsg, IBCCloseMsg}
    \cup {m \in IBCSendPacketMsgs : m.data = <<1, 2>>}
    \cup {m \in BankBurnMsgs : Len(m.amount) = 1 /\ m.amount[1].denom = "uatom"
                                /\ m.amount[1].amount \in {<<"1", "0", "0">>, <<"1", "x">>}}

InitDefault ==
  /\ pc = "ready" /\ res = NoRes /\ log = <<>>
  /\ seqStore = FullSeqStore /\ chanStore = FullChanStore /\ capStore = FullCapStore
  /\ sent = <<>> /\ bank = InitBank
  /\ \E msg \in DefaultMsgs, portID \in {"", "wasm.C1"},
        sendErr \in SendErrs, transferErr \in LedgerErrs, burnErr \in LedgerErrs :
       /\ msg.variant # "IBC.SendPacket" => (portID = "wasm.C1" /\ sendErr = NilErr)
       /\ msg.variant # "Bank.Burn" => (transferErr = NilErr /\ burnErr = NilErr)
       /\ \E encoders \in EncoderSets(msg.variant, Encodings(DefaultSdkMsgs, MaxOps)) :
            req = [contractAddr |-> "C1", portID |-> portID, msg |-> msg,
                   sendErr |-> sendErr, transferErr |-> transferErr, burnErr |-> burnErr,
                   chain |-> NewDefaultMessageHandler({"a"},
                                                      [isNil |-> FALSE, handlers |-> {"MsgA"}],
                                                      encoders)]

DefaultDispatch ==
  /\ pc = "ready"
  /\ LET r == MessageHandlerChainDispatchMsg(World, req.chain, req)
     IN  /\ pc' = "done" /\ res' = r.res /\ log' = r.w.log
         /\ seqStore' = r.w.seq /\ sent' = r.w.sent /\ bank' = r.w.bank
         /\ UNCHANGED <<req, chanStore, capStore>>

NextDefault == DefaultDispatch

SpecDefault == InitDefault /\ [][NextDefault]_vars

----------------------------------------------------------------------------
(* SpecNew: a chain constructed from a first handler and others, any of    *)
(* which may be nil, and then, when the construction returned, one message *)
(* dispatched to it.                                                       *)

\* The argument lists of NewMessageHandlerChain: first followed by others.
ChainArguments ==
  UNION { {hs \in [1..n -> UNION {FuncHandlers(i) \cup {NilMessenger(i)} : i \in 1..n}] :
             \A i \in 1..n : hs[i].name = i} : n \in 1..MaxChain }

InitNew ==
  /\ pc = "new" /\ res = NoRes /\ log = <<>>
  /\ seqStore = FullSeqStore /\ chanStore = FullChanStore /\ capStore = FullCapStore
  /\ sent = <<>> /\ bank = InitBank
  /\ \E hs \in ChainArguments :
       req = [contractAddr |-> "C1", portID |-> "", msg |-> BankSendMsg,
              first |-> Head(hs), others |-> Tail(hs),
              chain |-> NewMessageHandlerChain(<<>>)]

NewChain ==
  /\ pc = "new"
  /\ LET c == ConstructMessageHandlerChain(req.first, req.others)
     IN  IF c.panicked
         THEN /\ pc' = "panicked"
              /\ res' = [events |-> <<>>, data |-> <<>>,
                         err |-> [kind |-> "panic", labels |-> <<"handler must not be nil at position", c.position>>]]
              /\ UNCHANGED req
         ELSE /\ pc' = "ready"
              /\ req' = [req EXCEPT !.chain = c.chain]
              /\ UNCHANGED res
  /\ UNCHANGED <<log, seqStore, chanStore, capStore, sent, bank>>

NextNew == NewChain \/ ChainDispatch

SpecNew == InitNew /\ [][NextNew]_vars

----------------------------------------------------------------------------
(* SpecMerge: the default chain built from the default encoders and the    *)
(* caller's custom encoder sets, then one message dispatched to it.        *)

MergeVariants == {"Bank.Send", "Custom"}

\* What a set may register for a variant: one operation the modern router
\* handles, or one no router knows.
MergeEncodings ==
  { [err |-> NilErr, msgs |-> <<[validateErr |-> NilErr, signers |-> <<"C1">>,
                                 kind |-> k, handlerErr |-> NilErr]>>] : k \in OpKinds }

MergeEncoderSets ==
  UNION { [vs -> MergeEncodings] : vs \in SUBSET MergeVariants }

InitMerge ==
  /\ pc = "new" /\ res = NoRes /\ log = <<>>
  /\ seqStore = FullSeqStore /\ chanStore = FullChanStore /\ capStore = FullCapStore
  /\ sent = <<>> /\ bank = InitBank
  /\ \E msg \in {BankSendMsg, CustomMsg}, defaultEncoders \in MergeEncoderSets,
        customEncoders \in SeqsUpTo(MergeEncoderSets, MaxCustom) :
       req = [contractAddr |-> "C1", portID |-> "wasm.C1", msg |-> msg,
              sendErr |-> NilErr, transferErr |-> NilErr, burnErr |-> NilErr,
              defaultEncoders |-> defaultEncoders, customEncoders |-> customEncoders,
              chain |-> NewMessageHandlerChain(<<>>)]

NewDefault ==
  /\ pc = "new"
  /\ pc' = "ready"
  /\ req' = [req EXCEPT !.chain =
               NewDefaultMessageHandler({}, [isNil |-> FALSE, handlers |-> {"MsgA"}],
                                        MergeEncoders(req.defaultEncoders, req.customEncoders))]
  /\ UNCHANGED <<res, log, seqStore, chanStore, capStore, sent, bank>>

NextMerge == NewDefault \/ DefaultDispatch

SpecMerge == InitMerge /\ [][NextMerge]_vars

----------------------------------------------------------------------------
(* SpecNested: one message dispatched to a chain of function handlers in   *)
(* which a run of neighbouring handlers is itself a chain.                 *)

\* The leaf handlers, one more than a flat chain holds so that a chain can
\* stand between a first and a last handler.
NestedLeaves ==
  UNION { {hs \in [1..n -> UNION {FuncHandlers(i) : i \in 1..n}] :
             \A i \in 1..n : hs[i].name = i} : n \in 2..(MaxChain + 1) }

\* The handlers hs with those at positions i..j made a chain of their own.
Nest(hs, i, j) ==
  SubSeq(hs, 1, i - 1)
    \o <<[NewMessageHandlerChain(SubSeq(hs, i, j)) EXCEPT !.name = 0]>>
    \o SubSeq(hs, j + 1, Len(hs))

InitNested ==
  /\ pc = "ready" /\ res = NoRes /\ log = <<>>
  /\ seqStore = FullSeqStore /\ chanStore = FullChanStore /\ capStore = FullCapStore
  /\ sent = <<>> /\ bank = InitBank
  /\ \E hs \in NestedLeaves :
       \E i \in 1..Len(hs) : \E j \in i..Len(hs) :
         req = [contractAddr |-> "C1", portID |-> "", msg |-> CustomMsg,
                chain |-> NewMessageHandlerChain(Nest(hs, i, j))]

NextNested == ChainDispatch

SpecNested == InitNested /\ [][NextNested]_vars

----------------------------------------------------------------------------
(* Claims about the Cross-Chain Packet Handler (under SpecIBC).            *)

SendCalls == CallsOf(log, "SendPacket")
SeqCalls == CallsOf(log, "GetNextSequenceSend")
CapCalls == CallsOf(log, "GetCapability")
ReqIsSend == req.msg.variant = "IBC.SendPacket"
ReqSource == <<req.portID, req.msg.channelID>>
ReqCapName == <<"capabilities", "ports", req.portID, "channels", req.msg.channelID>>

\* The six conditions under which a packet may be submitted.
IBCSendAllowed ==
  /\ ReqIsSend
  /\ req.portID # ""
  /\ req.msg.channelID # ""
  /\ seqStore[ReqSource].found
  /\ chanStore[ReqSource].found
  /\ capStore[ReqCapName].found

\* The error kinds of the conditions that fail for the request.
IBCRefusalKinds ==
  IF ~ReqIsSend THEN {"ErrUnknownMsg"}
  ELSE (IF req.portID = "" THEN {"ErrUnsupportedForContract"} ELSE {})
       \cup (IF req.msg.channelID = "" THEN {"ErrEmpty"} ELSE {})
       \cup (IF req.portID # "" /\ req.msg.channelID # ""
             THEN (IF seqStore[ReqSource].found THEN {} ELSE {"ErrSequenceSendNotFound"})
                  \cup (IF chanStore[ReqSource].found THEN {} ELSE {"ErrInvalidChannel"})
                  \cup (IF capStore[ReqCapName].found THEN {} ELSE {"ErrChannelCapabilityNotFound"})
             ELSE {})

\* C4: SendPacket is called (once) exactly when the message is the
\* send-packet variant, port and channel are non-empty and the stores hold
\* a sequence, a descriptor and a capability for (port, channel); in every
\* other case the call returns the error of a failing condition and
\* SendPacket is not called.
C4_SendOnlyWhenAllChecksPass ==
  pc = "done" =>
    /\ Len(SendCalls) = (IF IBCSendAllowed THEN 1 ELSE 0)
    /\ ~IBCSendAllowed => res.err.kind \in IBCRefusalKinds
    /\ IBCSendAllowed => res.err = req.sendErr

C4_Witness == pc = "done" /\ IBCSendAllowed /\ Len(SendCalls) = 1 /\ req.sendErr # NilErr

\* C5: no two accepted packets of one (port, channel) carry the same
\* sequence; an accepted packet carries the value GetNextSequenceSend
\* returned in its call, and the store then hands out the next value.
C5_NoSequenceRepeat ==
  /\ \A i \in 1..Len(sent) : \A j \in 1..Len(sent) :
        (i < j /\ sent[i].sourcePort = sent[j].sourcePort
               /\ sent[i].sourceChannel = sent[j].sourceChannel)
          => sent[i].sequence # sent[j].sequence
  /\ (pc = "done" /\ Len(SendCalls) = 1 /\ res.err = NilErr) =>
        /\ SendCalls[1].packet.sequence = SeqCalls[1].result.seq
        /\ sent[Len(sent)] = SendCalls[1].packet
        /\ seqStore[ReqSource].seq = SendCalls[1].packet.sequence + 1

C5_Witness ==
  /\ Len(sent) = 2
  /\ sent[1].sourcePort = sent[2].sourcePort
  /\ sent[1].sourceChannel = sent[2].sourceChannel

\* C6: a submitted packet is determined by the call's inputs: the fetched
\* sequence, the contract's port and the message's channel as source, the
\* counterparty of the fetched descriptor as destination, and the
\* message's data, timeout height and timeout timestamp.
C6_PacketFromInputs ==
  (pc = "done" /\ Len(SendCalls) = 1) =>
    LET packet == SendCalls[1].packet IN
    /\ Len(SeqCalls) = 1
    /\ SeqCalls[1].port = req.portID /\ SeqCalls[1].channel = req.msg.channelID
    /\ packet.sequence = SeqCalls[1].result.seq
    /\ packet.sequence = seqStore[ReqSource].seq - (IF res.err = NilErr THEN 1 ELSE 0)
    /\ packet.sourcePort = req.portID
    /\ packet.sourceChannel = req.msg.channelID
    /\ packet.destPort = chanStore[ReqSource].counterparty.portID
    /\ packet.destChannel = chanStore[ReqSource].counterparty.channelID
    /\ packet.data = req.msg.data
    /\ packet.timeoutTimestamp = req.msg.timeoutTimestamp
    /\ IF req.msg.timeoutBlock = <<>>
       THEN packet.timeoutHeight = [revisionNumber |-> 0, revisionHeight |-> 0]
       ELSE /\ packet.timeoutHeight.revisionNumber = req.msg.timeoutBlock[1].revision
            /\ packet.timeoutHeight.revisionHeight = req.msg.timeoutBlock[1].height

C6_Witness ==
  /\ pc = "done" /\ Len(SendCalls) = 1
  /\ SendCalls[1].packet.timeoutHeight.revisionHeight = 1000
  /\ SendCalls[1].packet.sequence = 2

\* C7: the capability presented to SendPacket is the one the capability
\* store holds under the path of (contractIBCPortID, channel ID of the
\* message), and the packet's source is that same pair.
C7_OwnChannelOnly ==
  (pc = "done" /\ Len(SendCalls) = 1) =>
    /\ Len(CapCalls) = 1
    /\ CapCalls[1].name = ReqCapName
    /\ capStore[ReqCapName].found
    /\ SendCalls[1].cap = capStore[ReqCapName].cap
    /\ SendCalls[1].packet.sourcePort = req.portID
    /\ SendCalls[1].packet.sourceChannel = req.msg.channelID

C7_Witness ==
  /\ pc = "done" /\ Len(SendCalls) = 1 /\ res.err = NilErr
  /\ req.portID = "wasm.C2" /\ req.msg.channelID = "channel-1"

----------------------------------------------------------------------------
(* Claims about the Coin-Burn Handler (under SpecBurn).                    *)

LedgerCalls == SelectSeq(log, LAMBDA e : e.call \in {"SendCoinsFromAccountToModule", "BurnCoins"})

\* C8: for a burn message whose amounts convert, the ledger calls are
\* SendCoinsFromAccountToModule(contract, module, coins) and then, unless
\* the transfer failed, BurnCoins(module, coins), with the coins converted
\* from the message amount; the handler returns empty events and data;
\* no ledger call is made when the conversion fails or the message is no
\* burn.
C8_TransferThenBurn ==
  pc = "done" =>
    /\ res.events = <<>> /\ res.data = <<>>
    /\ IF req.msg.variant # "Bank.Burn"
       THEN LedgerCalls = <<>> /\ res.err = ErrUnknownMsg
       ELSE IF \E i \in 1..Len(req.msg.amount) : ~IsNumeral(req.msg.amount[i].amount)
       THEN LedgerCalls = <<>> /\ res.err.kind = "ErrInvalidCoins"
       ELSE
         LET coins == ConvertWasmCoinsToSdkCoins(req.msg.amount).coins IN
         /\ Len(coins) = Len(req.msg.amount)
         /\ Len(LedgerCalls) \in {1, 2}
         /\ LedgerCalls[1].call = "SendCoinsFromAccountToModule"
         /\ LedgerCalls[1].from = req.contractAddr
         /\ LedgerCalls[1].module = "wasm"
         /\ LedgerCalls[1].coins = coins
         /\ IF LedgerCalls[1].err # NilErr
            THEN Len(LedgerCalls) = 1 /\ res.err = Wrap(LedgerCalls[1].err, "transfer to module")
            ELSE /\ Len(LedgerCalls) = 2
                 /\ LedgerCalls[2].call = "BurnCoins"
                 /\ LedgerCalls[2].module = "wasm"
                 /\ LedgerCalls[2].coins = coins
                 /\ res.err = (IF LedgerCalls[2].err = NilErr THEN NilErr
                               ELSE Wrap(LedgerCalls[2].err, "burn coins"))

C8_Witness ==
  /\ pc = "done" /\ res.err = NilErr /\ Len(LedgerCalls) = 2
  /\ req.msg.variant = "Bank.Burn" /\ Len(req.msg.amount) = 1
  /\ LedgerCalls[2].coins = <<[denom |-> "uatom", amount |-> 100]>>
  /\ bank[req.contractAddr]["uatom"] = 0 /\ bank["wasm"]["uatom"] = 0

----------------------------------------------------------------------------
(* Claims about the Dispatch Chain (under SpecChain).                      *)

\* The handlers the chain called, in the order of the calls, and what each
\* returned.
Invoked == [i \in 1..Len(CallsOf(log, "DispatchMsg")) |-> CallsOf(log, "DispatchMsg")[i].handler]
Returned == CallsOf(log, "returned")

\* The handler at position i answers success or an error that is no
\* unknown-message error.
Decides(i) == req.chain.handlers[i].err.kind # "ErrUnknownMsg"

AllUnknown == \A i \in 1..Len(req.chain.handlers) : ~Decides(i)

\* C2: the chain calls its handlers in list order and returns the result
\* of the first that answers success or an error other than
\* ErrUnknownMsg; no later handler is called, and every earlier one was
\* called exactly once and answered ErrUnknownMsg.
C2_FirstDecidingHandlerWins ==
  pc = "done" =>
    LET hs == req.chain.handlers
        n == Len(hs)
        k == IF AllUnknown THEN n ELSE CHOOSE i \in 1..n : Decides(i) /\ \A j \in 1..(i - 1) : ~Decides(j)
    IN  /\ Invoked = [i \in 1..k |-> i]
        /\ Len(Returned) = k
        /\ \A i \in 1..k : Returned[i].handler = i /\ Returned[i].err = hs[i].err
        /\ \A i \in 1..(k - 1) : Returned[i].err.kind = "ErrUnknownMsg"
        /\ ~AllUnknown => res = [events |-> hs[k].events, data |-> hs[k].data, err |-> hs[k].err]

C2_Witness ==
  /\ pc = "done" /\ Len(req.chain.handlers) = 3
  /\ req.chain.handlers[1].err = ErrUnknownMsg
  /\ req.chain.handlers[2].err = [kind |-> "ErrUnknownMsg", labels |-> <<"unknown variant">>]
  /\ req.chain.handlers[3].err = NilErr
  /\ res.data = <<3>> /\ Invoked = <<1, 2, 3>>

\* C3 as stated: when every handler answers ErrUnknownMsg, the error of
\* the chain is not of the unknown-message kind.
C3_Original_UnknownKindNotSurfaced ==
  (pc = "done" /\ AllUnknown) => (res.err # NilErr /\ res.err.kind # "ErrUnknownMsg")

\* C3 amended: when every handler answers ErrUnknownMsg, the chain fails
\* with ErrUnknownMsg wrapped as "no handler found" and empty events and
\* data: an error other than the bare ErrUnknownMsg of a handler, but of
\* the unknown-message kind for a caller that tests it.
C3_NoHandlerFoundWrapsUnknown ==
  (pc = "done" /\ AllUnknown) =>
    /\ res.err = [kind |-> "ErrUnknownMsg", labels |-> <<"no handler found">>]
    /\ res.err # ErrUnknownMsg
    /\ ErrorsIs(res.err, ErrUnknownMsg)
    /\ res.events = <<>> /\ res.data = <<>>

C3_Witness ==
  /\ pc = "done" /\ AllUnknown /\ Len(req.chain.handlers) = 3
  /\ Invoked = <<1, 2, 3>> /\ res.err.labels = <<"no handler found">>

----------------------------------------------------------------------------
(* Claims about the Standard Handler (under SpecSDK).                      *)

\* The host operations the Encoder produced for the message.
Encoded == Encode(req.handler.encoders, req.msg).msgs

\* Operation i of the batch was handed to handleSdkMessage.
Reached(i) == \E e \in 1..Len(log) : log[e].call = "ValidateBasic" /\ log[e].idx = i

\* A router was asked for a handler of operation i; a handler ran it.
Routed(i) ==
  \E e \in 1..Len(log) : log[e].call \in {"msgRouter.Handler", "router.Route"} /\ log[e].idx = i
HandlerRan(i) == \E e \in 1..Len(log) : log[e].call = "handler" /\ log[e].idx = i

SignerSet(sdkMsg) == {sdkMsg.signers[i] : i \in 1..Len(sdkMsg.signers)}

\* C1 as stated: whenever the Encoder produced an operation whose signer
\* set is not exactly {contractAddr}, the empty set included, DispatchMsg
\* fails with Unauthorized.
C1_Original_NotExactlyContractUnauthorized ==
  pc = "done" =>
    \A i \in 1..Len(Encoded) :
      SignerSet(Encoded[i]) # {req.contractAddr} => res.err.kind = "ErrUnauthorized"

\* C1 amended: an operation that the handler reaches (every earlier one of
\* the batch succeeded), that passes ValidateBasic and that declares a
\* signer other than the contract makes DispatchMsg fail with
\* Unauthorized before any router is asked, whatever the routers hold and
\* also when msgRouter is nil; an operation declaring no signer passes the
\* signer check and goes on to routing.
C1_ForeignSignerUnauthorized ==
  pc = "done" =>
    \A i \in 1..Len(Encoded) :
      (Reached(i) /\ Encoded[i].validateErr = NilErr) =>
        /\ (\E a \in SignerSet(Encoded[i]) : a # req.contractAddr) =>
              /\ res.err = [kind |-> "ErrUnauthorized",
                            labels |-> <<"contract doesn't have permission">>]
              /\ res.events = <<>> /\ res.data = <<>>
              /\ ~Routed(i) /\ ~HandlerRan(i)
        /\ SignerSet(Encoded[i]) = {} =>
              IF req.handler.msgRouter.isNil THEN res.err.kind = "ErrPanic" ELSE Routed(i)

C1_Witness ==
  /\ pc = "done" /\ Len(Encoded) = 2 /\ Reached(2)
  /\ req.contractAddr = "C1"
  /\ Encoded[2].validateErr = NilErr /\ Encoded[2].signers = <<"C1", "C2">>
  /\ Encoded[2].kind \in req.handler.msgRouter.handlers
  /\ res.err.kind = "ErrUnauthorized"

----------------------------------------------------------------------------
(* Claims about the default chain (under SpecDefault).                     *)

\* The position in the log of the call of handler `name` and of its return
\* (0 when the chain did not call it).
CalledAt(name) ==
  IF \E e \in 1..Len(log) : log[e].call = "DispatchMsg" /\ log[e].handler = name
  THEN CHOOSE e \in 1..Len(log) : log[e].call = "DispatchMsg" /\ log[e].handler = name
  ELSE 0
ReturnedAt(name) ==
  IF \E e \in 1..Len(log) : log[e].call = "returned" /\ log[e].handler = name
  THEN CHOOSE e \in 1..Len(log) : log[e].call = "returned" /\ log[e].handler = name
  ELSE 0

EffectCalls == {"handler", "SendCoinsFromAccountToModule", "BurnCoins", "SendPacket"}

\* Handler `name` ran a router handler, called the ledger or submitted a
\* packet during its call.
HadEffects(name) ==
  \E e \in CalledAt(name)..ReturnedAt(name) : log[e].call \in EffectCalls

\* C9: a handler of the default chain whose result the chain treats as
\* unknown-message has run no router handler, made no ledger call and
\* submitted no packet during its call.
C9_FallThroughWithoutEffects ==
  pc = "done" =>
    \A name \in {"sdk", "ibc", "burn"} :
      (ReturnedAt(name) # 0 /\ log[ReturnedAt(name)].err.kind = "ErrUnknownMsg")
        => ~HadEffects(name)

\* The Standard Handler of the chain and the encoder set it was built with.
StandardHandler ==
  CHOOSE h \in {req.chain.handlers[i] : i \in 1..Len(req.chain.handlers)} : h.type = "sdk"
Validated == \E e \in 1..Len(log) : log[e].call \in {"ValidateBasic", "msgRouter.Handler", "router.Route", "handler"}

\* C10: for a variant the Encoder does not hold, the Standard Handler
\* returns the Encoder's unknown-message error unchanged, validating and
\* routing nothing, and the chain offers the message to the Cross-Chain
\* Packet Handler and, when that one does not know it either, to the
\* Coin-Burn Handler; any other Encoder error is returned unchanged by
\* the chain, which calls no further handler.
C10_UnknownVariantFallsThrough ==
  pc = "done" =>
    LET enc == Encode(StandardHandler.encoders, req.msg) IN
    /\ req.msg.variant \notin DOMAIN StandardHandler.encoders =>
         /\ Invoked[1] = "sdk" /\ Returned[1].handler = "sdk"
         /\ Returned[1].err = [kind |-> "ErrUnknownMsg", labels |-> <<"unknown variant">>]
         /\ ~Validated
         /\ Invoked[2] = "ibc"
         /\ IF req.msg.variant = "IBC.SendPacket"
            THEN Invoked = <<"sdk", "ibc">> /\ res.err = Returned[2].err
            ELSE /\ Invoked = <<"sdk", "ibc", "burn">>
                 /\ Returned[2].err = ErrUnknownMsg
                 /\ IF Returned[3].err.kind = "ErrUnknownMsg"
                    THEN res.err = [kind |-> "ErrUnknownMsg", labels |-> <<"no handler found">>]
                    ELSE res.err = Returned[3].err
    /\ (req.msg.variant \in DOMAIN StandardHandler.encoders /\ enc.err.kind \notin {"nil", "ErrUnknownMsg"}) =>
         /\ Invoked = <<"sdk">>
         /\ ~Validated
         /\ res = [events |-> <<>>, data |-> <<>>, err |-> enc.err]

C10_Witness ==
  /\ pc = "done"
  /\ req.msg.variant = "Bank.Burn" /\ req.msg.variant \notin DOMAIN StandardHandler.encoders
  /\ Invoked = <<"sdk", "ibc", "burn">>
  /\ res.err = NilErr /\ bank["C1"]["uatom"] = 0

----------------------------------------------------------------------------
(* Claims about the construction of a chain (under SpecNew).               *)

ArgumentList == <<req.first>> \o req.others
SomeNilArgument == \E i \in 1..Len(ArgumentList) : ArgumentList[i].type = "nil"

\* C11: a construction given a nil handler, first or among the others,
\* panics, naming the first nil position, and no dispatch call is ever
\* made on its chain; a chain whose construction returned holds the
\* non-empty list first, others..., none of them nil.
C11_NilHandlerPanicsAtConstruction ==
  /\ SomeNilArgument =>
       /\ pc \in {"new", "panicked"}
       /\ log = <<>>
       /\ pc = "panicked" =>
            \E i \in 1..Len(ArgumentList) :
              /\ ArgumentList[i].type = "nil"
              /\ \A j \in 1..(i - 1) : ArgumentList[j].type # "nil"
              /\ res.err = [kind |-> "panic",
                            labels |-> <<"handler must not be nil at position", i - 1>>]
  /\ pc \in {"ready", "done"} =>
       /\ req.chain.handlers = ArgumentList
       /\ Len(req.chain.handlers) >= 1
       /\ \A i \in 1..Len(req.chain.handlers) : req.chain.handlers[i].type # "nil"
  /\ pc = "panicked" => SomeNilArgument

C11_Witness ==
  /\ pc = "panicked" /\ Len(req.others) = 2
  /\ req.first.type # "nil" /\ req.others[1].type # "nil" /\ req.others[2].type = "nil"
  /\ res.err.labels[2] = 2

----------------------------------------------------------------------------
(* Claims about the encoder sets of the default chain (under SpecMerge).   *)

\* The sets in the order they are merged: the default set, then the custom ones.
MergedSets == <<req.defaultEncoders>> \o req.customEncoders
UsedEncoders == req.chain.handlers[1].encoders
Suppliers(v) == {i \in 1..Len(MergedSets) : v \in DOMAIN MergedSets[i]}
LastSupplier(v) == CHOOSE i \in Suppliers(v) : \A j \in Suppliers(v) : j <= i
Orders(n) == {f \in [1..n -> 1..n] : \A i, j \in 1..n : f[i] = f[j] => i = j}
PairwiseDistinctKeys ==
  \A i, j \in 1..Len(MergedSets) : i # j => DOMAIN MergedSets[i] \cap DOMAIN MergedSets[j] = {}

\* C12: the encoder set the default chain uses is the default set with the
\* custom sets merged on top in argument order: a variant is known exactly
\* when some set supplies it, its entry is that of the last set supplying
\* it, and that entry is what the dispatched message is encoded with; when
\* the sets have pairwise distinct keys every order of merging gives the
\* same set.
C12_MergedInArgumentOrderLastWins ==
  pc \in {"ready", "done"} =>
    /\ DOMAIN UsedEncoders = UNION {DOMAIN MergedSets[i] : i \in 1..Len(MergedSets)}
    /\ \A v \in DOMAIN UsedEncoders : UsedEncoders[v] = MergedSets[LastSupplier(v)][v]
    /\ pc = "done" =>
         IF Suppliers(req.msg.variant) = {}
         THEN ErrorsIs(res.err, ErrUnknownMsg) /\ CallsOf(log, "ValidateBasic") = <<>>
         ELSE LET op == MergedSets[LastSupplier(req.msg.variant)][req.msg.variant].msgs[1]
              IN  IF op.kind = "MsgA"
                  THEN res.err = NilErr /\ res.data = <<<<"msgRouter", "MsgA", 1>>>>
                  ELSE ErrorsIs(res.err, ErrUnknownRequest)
    /\ PairwiseDistinctKeys =>
         \A f \in Orders(Len(MergedSets)) :
           LET g == [i \in 1..Len(MergedSets) |-> MergedSets[f[i]]]
           IN  MergeEncoders(Head(g), Tail(g)) = UsedEncoders

C12_Witness ==
  /\ pc = "done" /\ Len(req.customEncoders) = 2
  /\ req.msg.variant \in DOMAIN req.defaultEncoders
  /\ req.msg.variant \in DOMAIN req.customEncoders[1]
  /\ req.msg.variant \in DOMAIN req.customEncoders[2]
  /\ req.defaultEncoders[req.msg.variant].msgs[1].kind = "MsgA"
  /\ req.customEncoders[1][req.msg.variant].msgs[1].kind = "MsgA"
  /\ req.customEncoders[2][req.msg.variant].msgs[1].kind = "MsgB"
  /\ ErrorsIs(res.err, ErrUnknownRequest)

----------------------------------------------------------------------------
(* Claims about the steps of the Standard Handler (under SpecSDK).         *)

\* The position in the log of the call `name` made for operation i (0: none).
StepAt(name, i) ==
  IF \E e \in 1..Len(log) : log[e].call = name /\ log[e].idx = i
  THEN CHOOSE e \in 1..Len(log) : log[e].call = name /\ log[e].idx = i
  ELSE 0

\* The position of the first router lookup made for operation i (0: none).
RoutedAt(i) ==
  IF StepAt("msgRouter.Handler", i) # 0 THEN StepAt("msgRouter.Handler", i)
  ELSE StepAt("router.Route", i)

\* C13: each operation goes through self-validation, then the signer check,
\* then routing: a router is asked about an operation, and a handler
\* invoked on it, only after the operation passed ValidateBasic and its
\* signers were read and all found equal to the contract address; no
\* router handler runs an operation with a signer other than the contract.
C13_ValidateThenSignersThenRoute ==
  \A i \in 1..Len(Encoded) :
    /\ StepAt("GetSigners", i) # 0 =>
          /\ 0 < StepAt("ValidateBasic", i)
          /\ StepAt("ValidateBasic", i) < StepAt("GetSigners", i)
          /\ Encoded[i].validateErr = NilErr
    /\ RoutedAt(i) # 0 =>
          /\ 0 < StepAt("GetSigners", i)
          /\ StepAt("GetSigners", i) < RoutedAt(i)
          /\ Encoded[i].validateErr = NilErr
          /\ SignerSet(Encoded[i]) \subseteq {req.contractAddr}
    /\ StepAt("handler", i) # 0 =>
          /\ 0 < RoutedAt(i)
          /\ RoutedAt(i) < StepAt("handler", i)
    /\ (\E a \in SignerSet(Encoded[i]) : a # req.contractAddr) =>
          StepAt("handler", i) = 0 /\ RoutedAt(i) = 0

C13_Witness ==
  /\ pc = "done" /\ Len(Encoded) = 2
  /\ StepAt("handler", 1) # 0
  /\ Encoded[2].validateErr # NilErr /\ Encoded[2].signers = <<"C1", "C2">>
  /\ req.contractAddr = "C1" /\ ~req.handler.msgRouter.isNil
  /\ StepAt("ValidateBasic", 2) # 0 /\ StepAt("GetSigners", 2) = 0
  /\ res.err = Err("ErrInvalidRequest")

\* What handleSdkMessage answers for an operation, read off the operation
\* and the routers.
OpOutcome(sdkMsg) ==
  IF sdkMsg.validateErr # NilErr THEN sdkMsg.validateErr
  ELSE IF \E a \in SignerSet(sdkMsg) : a # req.contractAddr
  THEN Wrap(ErrUnauthorized, "contract doesn't have permission")
  ELSE IF req.handler.msgRouter.isNil THEN Wrap(ErrPanic, ">>> msgRouter is nil!!!")
  ELSE IF sdkMsg.kind \in req.handler.msgRouter.handlers THEN sdkMsg.handlerErr
  ELSE IF ~IsLegacyMsg(sdkMsg) THEN Wrap(ErrUnknownRequest, "can't route message")
  ELSE IF Route(sdkMsg) \notin req.handler.router
  THEN Wrap(ErrUnknownRequest, "unrecognized message route")
  ELSE sdkMsg.handlerErr

\* The operations of the batch that fail when reached.
FailingOps == {i \in 1..Len(Encoded) : OpOutcome(Encoded[i]) # NilErr}
FirstFailing == CHOOSE k \in FailingOps : \A j \in FailingOps : k <= j
OpCalls(i) == SelectSeq(log, LAMBDA e : e.call # "Encode" /\ e.idx = i)

\* C14: when the k-th operation of the batch is the first to fail, DispatchMsg
\* returns that operation's error with empty events and empty data, no
\* operation after the k-th is validated, routed or run, and every
\* operation before the k-th was run by its handler, once, with nothing
\* after the failure: the log ends with the k-th operation's last call.
C14_FailureAbortsBatchWithoutRollback ==
  (pc = "done" /\ FailingOps # {}) =>
    LET k == FirstFailing
    IN  /\ res.err = OpOutcome(Encoded[k])
        /\ res.events = <<>> /\ res.data = <<>>
        /\ \A j \in (k + 1)..Len(Encoded) : OpCalls(j) = <<>>
        /\ \A j \in 1..(k - 1) :
              /\ Len(SelectSeq(OpCalls(j), LAMBDA e : e.call = "handler")) = 1
              /\ StepAt("handler", j) < StepAt("ValidateBasic", k)
        /\ log[Len(log)].idx = k
        /\ Len(CallsOf(log, "handler")) \in {k - 1, k}

C14_Witness ==
  /\ pc = "done" /\ Len(Encoded) = 2
  /\ FailingOps = {2}
  /\ Encoded[2].handlerErr # NilErr /\ OpOutcome(Encoded[2]) = Encoded[2].handlerErr
  /\ StepAt("handler", 1) # 0 /\ StepAt("handler", 2) # 0
  /\ res.err = Err("ErrHandlerFailed") /\ res.data = <<>>

\* Operation i came to routing: reached, valid, signed by the contract only.
CameToRouting(i) ==
  /\ Reached(i) /\ Encoded[i].validateErr = NilErr
  /\ SignerSet(Encoded[i]) \subseteq {req.contractAddr}

ModernHas(i) == Encoded[i].kind \in req.handler.msgRouter.handlers
LegacyHas(i) == IsLegacyMsg(Encoded[i]) /\ Route(Encoded[i]) \in req.handler.router
RanVia(i, via) ==
  \E e \in 1..Len(log) : log[e].call = "handler" /\ log[e].idx = i /\ log[e].via = via

RoutingPrecedence(i) ==
  /\ ModernHas(i) => RanVia(i, "msgRouter") /\ StepAt("router.Route", i) = 0
  /\ StepAt("router.Route", i) # 0 => ~ModernHas(i) /\ IsLegacyMsg(Encoded[i])
  /\ (~ModernHas(i) /\ LegacyHas(i)) => RanVia(i, "router")
  /\ (~ModernHas(i) /\ ~LegacyHas(i)) =>
        res.err.kind = "ErrUnknownRequest" /\ StepAt("handler", i) = 0

\* C15 as stated: for every operation that comes to routing, the modern
\* router's handler runs it without the legacy table being consulted, the
\* legacy table is consulted only for a legacy operation the modern router
\* has no handler for, and when neither has it the call fails with
\* UnknownRequest.
C15_Original_NeitherRouterUnknownRequest ==
  pc = "done" => \A i \in 1..Len(Encoded) : CameToRouting(i) => RoutingPrecedence(i)

\* C15 amended: the same for a Standard Handler whose msgRouter is not nil:
\* a handler of the modern router runs the operation and the legacy table
\* is not consulted, also when it has a route for it; the legacy table is
\* consulted only for an operation with a legacy route key that the modern
\* router has no handler for, and its handler runs it; when neither has
\* it the call fails with UnknownRequest and no handler runs.
C15_ModernFirstThenLegacy ==
  (pc = "done" /\ ~req.handler.msgRouter.isNil) =>
    \A i \in 1..Len(Encoded) : CameToRouting(i) => RoutingPrecedence(i)

C15_Witness ==
  /\ pc = "done" /\ ~req.handler.msgRouter.isNil /\ Len(Encoded) = 2
  /\ CameToRouting(1) /\ ModernHas(1) /\ LegacyHas(1) /\ RanVia(1, "msgRouter")
  /\ CameToRouting(2) /\ ~ModernHas(2) /\ ~LegacyHas(2)
  /\ res.err.kind = "ErrUnknownRequest"

----------------------------------------------------------------------------
(* Claims about the order of the packet handler's checks (under SpecIBC).  *)

Missing(store, key) == key \notin DOMAIN store \/ ~store[key].found

\* The preconditions of a send that fail for the request, in the order of
\* the checks: port, channel, sequence, descriptor, capability.
FailedChecks ==
  (IF req.portID = "" THEN {1} ELSE {})
    \cup (IF req.msg.channelID = "" THEN {2} ELSE {})
    \cup (IF Missing(seqStore, ReqSource) THEN {3} ELSE {})
    \cup (IF Missing(chanStore, ReqSource) THEN {4} ELSE {})
    \cup (IF Missing(capStore, ReqCapName) THEN {5} ELSE {})

FirstFailedCheck == CHOOSE f \in FailedChecks : \A g \in FailedChecks : f <= g

CheckErrKinds ==
  <<"ErrUnsupportedForContract", "ErrEmpty", "ErrSequenceSendNotFound",
    "ErrInvalidChannel", "ErrChannelCapabilityNotFound">>

\* The store queries made before the check f fails.
QueriesUpTo(f) ==
  SubSeq(<<"GetNextSequenceSend", "GetChannel", "GetCapability">>, 1, IF f <= 2 THEN 0 ELSE f - 2)

CallNames == [e \in 1..Len(log) |-> log[e].call]

\* C16: a send-packet dispatch with failing preconditions returns the error
\* of the first failing check in the order port, channel, sequence,
\* descriptor, capability, having queried the stores of the checks up to
\* that one and no store checked later, and having sent nothing.
C16_FirstFailingCheckDecides ==
  (pc = "done" /\ ReqIsSend /\ FailedChecks # {}) =>
    /\ res.err.kind = CheckErrKinds[FirstFailedCheck]
    /\ CallNames = QueriesUpTo(FirstFailedCheck)

C16_Witness ==
  /\ pc = "done" /\ ReqIsSend
  /\ FailedChecks = {3, 4, 5}
  /\ res.err.kind = "ErrSequenceSendNotFound"
  /\ CallNames = <<"GetNextSequenceSend">>

\* The router whose handler runs operation i when it comes to routing.
ViaOf(i) == IF ModernHas(i) THEN "msgRouter" ELSE "router"

\* The events of the handlers' results for operations 1..n, in that order.
RECURSIVE EventsUpTo(_)
EventsUpTo(n) ==
  IF n = 0 THEN <<>>
  ELSE EventsUpTo(n - 1) \o ResultEvents(ViaOf(n), n, Encoded[n])

EncodeSucceeded == Encode(req.handler.encoders, req.msg).err = NilErr

\* C17: when the Encoder and all n operations of the batch succeed, the
\* call succeeds, the data holds n blobs, the i-th that of the handler of
\* operation i, and the events are the events of the handlers' results
\* concatenated in the order of the operations; for n = 0 events and data
\* are empty and nothing but the Encoder was called.
C17_ResultsInOperationOrder ==
  (pc = "done" /\ EncodeSucceeded /\ FailingOps = {}) =>
    /\ res.err = NilErr
    /\ Len(res.data) = Len(Encoded)
    /\ \A i \in 1..Len(Encoded) : res.data[i] = <<ViaOf(i), Encoded[i].kind, i>>
    /\ res.events = EventsUpTo(Len(Encoded))
    /\ \A i \in 1..Len(Encoded) : RanVia(i, ViaOf(i))
    /\ Len(Encoded) = 0 =>
         /\ res.events = <<>> /\ res.data = <<>>
         /\ CallNames = <<"Encode">>

C17_Witness ==
  /\ pc = "done" /\ EncodeSucceeded /\ FailingOps = {} /\ Len(Encoded) = 2
  /\ Encoded[1].kind = "MsgB" /\ Encoded[2].kind = "MsgA"
  /\ Len(res.events) = 3 /\ res.events[3].idx = 2 /\ res.events[3].via = "router"
  /\ res.data = << <<"msgRouter", "MsgB", 1>>, <<"router", "MsgA", 2>> >>

\* The empty batch: the call succeeds with nothing returned and no router asked.
C17_WitnessEmptyBatch ==
  /\ pc = "done" /\ EncodeSucceeded /\ Len(Encoded) = 0
  /\ res = NoRes /\ CallNames = <<"Encode">>

----------------------------------------------------------------------------
(* Claims about a failing burn (under SpecBurn).                           *)

BurnAmount == ConvertWasmCoinsToSdkCoins(req.msg.amount)

\* The transfer to the module account was made, and the burn then refused.
TransferredThenBurnFailed ==
  /\ Len(LedgerCalls) = 2
  /\ LedgerCalls[1].err = NilErr
  /\ LedgerCalls[2].err # NilErr

\* C18 as stated: whenever the burn handler returns an error, the balances
\* at return are those before the call.
C18_Original_BalancesUnchangedOnError ==
  (pc = "done" /\ res.err # NilErr) => bank = InitBank

\* C18 amended: when the transfer succeeded and BurnCoins failed, the
\* handler returns the error wrapped as "burn coins" and the transfer is
\* left as made: the contract holds the amount less, the module account
\* the amount more, no coin destroyed; on every other error of the
\* handler the balances are those before the call.
C18_BurnFailureLeavesTransfer ==
  pc = "done" =>
    /\ TransferredThenBurnFailed =>
          /\ res.err = Wrap(LedgerCalls[2].err, "burn coins")
          /\ res.events = <<>> /\ res.data = <<>>
          /\ \A d \in Denoms :
                /\ bank[req.contractAddr][d] = InitBank[req.contractAddr][d] - TotalOf(BurnAmount.coins, d)
                /\ bank[ModuleName][d] = InitBank[ModuleName][d] + TotalOf(BurnAmount.coins, d)
                /\ \A a \in Addrs \ {req.contractAddr} : bank[a][d] = InitBank[a][d]
    /\ (res.err # NilErr /\ ~TransferredThenBurnFailed) => bank = InitBank
    /\ res.err = NilErr => ~TransferredThenBurnFailed

C18_Witness ==
  /\ pc = "done" /\ TransferredThenBurnFailed
  /\ res.err = Wrap(Err("ErrLedger"), "burn coins")
  /\ \E d \in Denoms : bank[ModuleName][d] > 0 /\ bank[req.contractAddr][d] < InitBank[req.contractAddr][d]

----------------------------------------------------------------------------
(* Claims about a chain inside a chain (under SpecNested).                 *)

\* The handlers of a chain with every inner chain replaced by its handlers.
RECURSIVE Spliced(_)
Spliced(handlers) ==
  IF handlers = <<>> THEN <<>>
  ELSE (IF Head(handlers).type = "chain" THEN Spliced(Head(handlers).handlers)
        ELSE <<Head(handlers)>>) \o Spliced(Tail(handlers))

\* The leaf handlers a dispatch called, in order, inner chains left out.
LeafCalls(lg) ==
  LET calls == SelectSeq(lg, LAMBDA e : e.call = "DispatchMsg" /\ e.handler # 0)
  IN  [e \in 1..Len(calls) |-> calls[e].handler]

SplicedDispatch ==
  MessageHandlerChainDispatchMsg(World, NewMessageHandlerChain(Spliced(req.chain.handlers)), req)

NestedAt == CHOOSE i \in 1..Len(req.chain.handlers) : req.chain.handlers[i].type = "chain"

\* C19: a chain holding a chain calls the same leaf handlers in the same
\* order and returns the same events, data and error as the chain with
\* the inner chain's handlers spliced in its place.
C19_NestedChainIsSpliced ==
  pc = "done" =>
    /\ res = SplicedDispatch.res
    /\ LeafCalls(log) = LeafCalls(SplicedDispatch.w.log)

\* chain[A, chain[B, C], D] with A, B and C reporting ErrUnknownMsg and D deciding.
C19_Witness ==
  /\ pc = "done" /\ Len(req.chain.handlers) = 3 /\ NestedAt = 2
  /\ Len(req.chain.handlers[2].handlers) = 2
  /\ \A i \in 1..3 : Spliced(req.chain.handlers)[i].err.kind = "ErrUnknownMsg"
  /\ LeafCalls(log) = <<1, 2, 3, 4>>
  /\ res.err = Err("ErrFailed") /\ res.data = <<4>>

----------------------------------------------------------------------------
(* Claims about a Standard Handler without msgRouter (under SpecSDK).      *)

RouterCalls ==
  SelectSeq(log, LAMBDA e : e.call \in {"msgRouter.Handler", "router.Route", "handler"})

\* C20: in a Standard Handler whose msgRouter is nil, an operation that is
\* reached fails with its validation error when it is invalid, else with
\* Unauthorized when it has a signer other than the contract, else with
\* the panic-kind error; no router is asked and no handler runs, also
\* when the legacy table has a route for the operation.
C20_NilMsgRouterPanicKind ==
  (pc = "done" /\ req.handler.msgRouter.isNil) =>
    /\ RouterCalls = <<>>
    /\ \A i \in 1..Len(Encoded) :
         Reached(i) =>
           /\ i = 1
           /\ res.events = <<>> /\ res.data = <<>>
           /\ res.err =
                 (IF Encoded[i].validateErr # NilErr THEN Encoded[i].validateErr
                  ELSE IF \E a \in SignerSet(Encoded[i]) : a # req.contractAddr
                  THEN Wrap(ErrUnauthorized, "contract doesn't have permission")
                  ELSE Wrap(ErrPanic, ">>> msgRouter is nil!!!"))

C20_Witness ==
  /\ pc = "done" /\ req.handler.msgRouter.isNil /\ Len(Encoded) = 2
  /\ Encoded[1].validateErr = NilErr /\ SignerSet(Encoded[1]) = {req.contractAddr}
  /\ LegacyHas(1)
  /\ res.err.kind = "ErrPanic" /\ RouterCalls = <<>>

====
